---- MODULE Spec2Model ----
(***************************************************************************)
(* A model of the agent-pipeline engine: the agent resolver (registry.py), *)
(* the graph compiler (builder.py), the graph cache (cache.py), the node   *)
(* executors and routers (nodes.py) and the run executor (runtime.py).     *)
(*                                                                         *)
(* Python's None is the string NoneVal.  A message body is a record that   *)
(* is either a plain string or a list of content blocks, as the model API  *)
(* returns it.  The graph library's semantics (entry point, static edges,  *)
(* conditional edges evaluated on the state after the node's update, the   *)
(* add_messages reducer, one update streamed per executed node) are those  *)
(* builder.py and runtime.py rely on.                                      *)
(***************************************************************************)
EXTENDS Integers, Sequences, FiniteSets, TLC

\* ----------------------------------------------------------------- bounds
\* Largest number of agents in a pipeline.
MaxAgents == 3
\* Largest number of tool rounds the model asks for inside one node.
MaxToolRounds == 1
\* Largest number of tool requests in one model response.
MaxToolCalls == 1
\* Largest number of graph builds in a behaviour of the cache specification.
MaxBuilds == 3

\* Number of concurrent runs in the concurrency specification.
NumRuns == 2
\* Largest number of node executions in a run of the routing specification.
MaxSteps == 4
MaxDriven == 6
MaxScan == 2
MaxBlocks == 2
MaxExtracts == 2

\* -------------------------------------------------------- program constants
MAX_RETRIES == 3
MAX_ITERATIONS == 5

NoneVal == "<none>"
\* A key that a parsed JSON object does not have.
Absent == "<absent>"
END == "__end__"

\* --------------------------------------------------------------- registry
\* The agent types of AGENT_TYPE_REGISTRY the model uses, and stale: a type
\* that lists a tool no tool module registers, the case resolve_tools raises
\* for when the graph is built.
AGENT_TYPE_REGISTRY ==
    [ writer |->
        [ name |-> "writer",
          description |-> "Creative writer for marketing and content.",
          model |-> "claude-sonnet-4-20250514",
          tools |-> <<"parse_document">> ],
      coder |->
        [ name |-> "coder",
          description |-> "Senior software engineer and architect.",
          model |-> "claude-sonnet-4-20250514",
          tools |-> <<"calculate", "parse_document">> ],
      validator |->
        [ name |-> "validator",
          description |-> "Reviews pipeline output and accepts or rejects it.",
          model |-> "claude-sonnet-4-20250514",
          tools |-> <<"accept_output", "reject_output">> ],
      stale |->
        [ name |-> "stale",
          description |-> "An agent whose tool is not registered.",
          model |-> "claude-sonnet-4-20250514",
          tools |-> <<"unregistered_tool">> ] ]

\* The tool names registered by the @register decorators that the model uses.
ToolRegistry == {"calculate", "parse_document", "accept_output", "reject_output"}

\* resolve_agent_type: the lookup fails (raises) for an unregistered type.
KnownType(type_name) == type_name \in DOMAIN AGENT_TYPE_REGISTRY

\* merge_agent(ref, index): index is the 0-based position in system.agents.
merge_agent(ref, index) ==
    LET typedef == AGENT_TYPE_REGISTRY[ref.type]
    IN  [ name |-> ref.type \o "_" \o ToString(index),
          type |-> ref.type,
          description |-> typedef.description,
          model |-> typedef.model,
          tools |-> typedef.tools,
          prompt |-> ref.prompt ]

\* The list comprehension of execute_run: every reference merged, in order.
MergeAgents(system) ==
    [ i \in 1..Len(system.agents) |-> merge_agent(system.agents[i], i - 1) ]

\* Whether merging every agent of the system succeeds.
AgentsResolve(system) ==
    \A i \in 1..Len(system.agents) : KnownType(system.agents[i].type)

\* resolve_tools raises when a name is not registered.
ToolsResolve(names) == \A i \in 1..Len(names) : names[i] \in ToolRegistry

\* "\n".join(parts).
RECURSIVE JoinLines(_)
JoinLines(parts) ==
    IF parts = << >> THEN ""
    ELSE IF Len(parts) = 1 THEN parts[1]
    ELSE parts[1] \o "\n" \o JoinLines(Tail(parts))

\* ------------------------------------------------------------ graph builder
\* A compiled node: its executor kind and the edge leaving it.
\*   edge "end": static edge to END;  "next": static edge to target;
\*   "validation": conditional edge driven by route_validation.
GraphNode(agent, kind, edge, target) ==
    [ name |-> agent.name, kind |-> kind, tools |-> agent.tools,
      prompt |-> agent.prompt, edge |-> edge, target |-> target ]

_build_single(agent) ==
    [ entry |-> agent.name,
      nodes |-> << GraphNode(agent, "agent", "end", END) >> ]

_build_sequential_always_validates(agents) ==
    LET n == Len(agents)
    IN  [ entry |-> agents[1].name,
          nodes |-> [ i \in 1..n |->
                        IF i < n
                        THEN GraphNode(agents[i], "agent", "next",
                                       agents[i + 1].name)
                        ELSE GraphNode(agents[n], "validator", "validation",
                                       agents[1].name) ] ]

_build_sequential(agents) ==
    IF Len(agents) < 2
    THEN _build_single(agents[1])
    ELSE LET n == Len(agents)
         IN  [ entry |-> agents[1].name,
               nodes |-> [ i \in 1..n |->
                             IF i < n
                             THEN GraphNode(agents[i], "agent", "next",
                                            agents[i + 1].name)
                             ELSE GraphNode(agents[n], "validator", "validation",
                                            agents[1].name) ] ]

\* A compiled node whose outgoing edge is conditional on a router over the
\* list agent_names: "decision" (route_decision) or "delegation"
\* (route_delegation).
RoutedNode(agent, kind, prompt, edge, agent_names) ==
    [ name |-> agent.name, kind |-> kind, tools |-> agent.tools,
      prompt |-> prompt, edge |-> edge, target |-> END,
      agent_names |-> agent_names ]

\* The names of the agents from position from on.
NamesFrom(agents, from) ==
    [ i \in 1..(Len(agents) - from + 1) |-> agents[i + from - 1].name ]

_build_orchestrator(system, agents) ==
    [ entry |-> agents[1].name,
      nodes |-> [ i \in 1..Len(agents) |->
                    IF i = 1
                    THEN RoutedNode(agents[1], "agent", agents[1].prompt,
                                    "decision", NamesFrom(agents, 2))
                    ELSE GraphNode(agents[i], "agent", "next", agents[1].name) ] ]

\* The extended prompt of make_decentralised_node: the agent's prompt, the
\* delegation protocol and the other agents' names.
extended_prompt(agent, all_agents) ==
    LET other_agents == SelectSeq(all_agents, LAMBDA a : a.name # agent.name)
        agent_descriptions ==
            JoinLines([ i \in 1..Len(other_agents) |->
                          "- **" \o other_agents[i].name \o "**: "
                              \o other_agents[i].description ])
    IN  agent.prompt \o "\n\n## Delegation\n" \o agent_descriptions

_build_decentralised(agents) ==
    [ entry |-> agents[1].name,
      nodes |-> [ i \in 1..Len(agents) |->
                    RoutedNode(agents[i], "decentralised",
                               extended_prompt(agents[i], agents),
                               "delegation", NamesFrom(agents, 1)) ] ]

\* Whether build_graph returns a graph (and does not raise) for these inputs:
\* the topology is known and every node factory resolves its agent's tools.
BuildSucceeds(system, agents) ==
    /\ system.topology \in {"single", "sequential", "orchestrator",
                            "decentralised"}
    /\ \A i \in 1..Len(agents) :
          (system.topology # "single" \/ i = 1) => ToolsResolve(agents[i].tools)

build_graph(system, agents) ==
    CASE system.topology = "single" -> _build_single(agents[1])
      [] system.topology = "sequential" -> _build_sequential(agents)
      [] system.topology = "orchestrator" -> _build_orchestrator(system, agents)
      [] system.topology = "decentralised" -> _build_decentralised(agents)

\* The node of a compiled graph with the given name.
NodeOf(g, name) ==
    LET i == CHOOSE j \in 1..Len(g.nodes) : g.nodes[j].name = name
    IN  g.nodes[i]

\* -------------------------------------------------------------- graph cache
\* _hash_system: a digest of the system's dump and of each resolved agent's
\* name, type, description, model, tools and prompt.  The digest is modelled
\* by the data it is computed from (no two inputs of the model collide).
_hash_system_no_prompt(system, agents) ==
    [ system |-> [ system EXCEPT !.agents =
                      [ i \in 1..Len(system.agents) |->
                          [ type |-> system.agents[i].type ] ] ],
      agents |-> [ i \in 1..Len(agents) |->
                     [ name |-> agents[i].name, type |-> agents[i].type,
                       description |-> agents[i].description,
                       model |-> agents[i].model, tools |-> agents[i].tools ] ] ]

_hash_system(system, agents) ==
    [ system |-> system,
      agents |-> [ i \in 1..Len(agents) |->
                     [ name |-> agents[i].name, type |-> agents[i].type,
                       description |-> agents[i].description,
                       model |-> agents[i].model, tools |-> agents[i].tools,
                       prompt |-> agents[i].prompt ] ] ]

get_or_build_always_builds(c, system, agents, gid) ==
    LET graph == [ gid |-> gid, g |-> build_graph(system, agents), src |-> system ]
    IN  [ cache |-> [ k \in DOMAIN c \cup {system.id} |->
                        IF k = system.id
                        THEN [ hash |-> _hash_system(system, agents),
                               graph |-> graph ]
                        ELSE c[k] ],
          graph |-> graph, built |-> TRUE ]

get_or_build_ignores_hash(c, system, agents, gid) ==
    IF system.id \in DOMAIN c
    THEN [ cache |-> c, graph |-> c[system.id].graph, built |-> FALSE ]
    ELSE LET graph == [ gid |-> gid, g |-> build_graph(system, agents),
                          src |-> system ]
         IN  [ cache |-> [ k \in DOMAIN c \cup {system.id} |->
                             IF k = system.id
                             THEN [ hash |-> _hash_system(system, agents),
                                    graph |-> graph ]
                             ELSE c[k] ],
               graph |-> graph, built |-> TRUE ]

\* get_or_build on cache c.  A compiled graph is the object build_graph
\* returns: gid is its identity (the number of the build that made it), src
\* the configuration it was built from.  Returns the new cache, the graph
\* returned and whether it was built.
get_or_build(c, system, agents, gid) ==
    LET config_hash == _hash_system(system, agents)
    IN  IF system.id \in DOMAIN c /\ c[system.id].hash = config_hash
        THEN [ cache |-> c, graph |-> c[system.id].graph, built |-> FALSE ]
        ELSE LET graph == [ gid |-> gid, g |-> build_graph(system, agents),
                              src |-> system ]
             IN  [ cache |-> [ k \in DOMAIN c \cup {system.id} |->
                                 IF k = system.id
                                 THEN [ hash |-> config_hash, graph |-> graph ]
                                 ELSE c[k] ],
                   graph |-> graph, built |-> TRUE ]

\* invalidate(system_id): system_id is NoneVal when the argument is omitted.
\* Python's truth test `if system_id:` is false for None and for "".
invalidate(c, system_id) ==
    IF system_id # NoneVal /\ system_id # ""
    THEN [ k \in DOMAIN c \ {system_id} |-> c[k] ]
    ELSE << >>

\* ---------------------------------------------------------------- messages
StrBody(s) == [ kind |-> "str", text |-> s, blocks |-> << >> ]
ListBody(bs) == [ kind |-> "list", text |-> "", blocks |-> bs ]
\* A content block: a dict with a "text" key, a dict without one, or another
\* object; repr is str(block).
TextBlock(s) == [ isDict |-> TRUE, hasText |-> TRUE, text |-> s, repr |-> s ]
OtherBlock(r) == [ isDict |-> FALSE, hasText |-> FALSE, text |-> "", repr |-> r ]
DictBlock(r) == [ isDict |-> TRUE, hasText |-> FALSE, text |-> "", repr |-> r ]
\* A content that is neither a string nor a list; text is str(content).
OtherBody(r) == [ kind |-> "other", text |-> r, blocks |-> << >> ]

_extract_content_repr(content) ==
    IF content.kind = "list"
    THEN JoinLines([ i \in 1..Len(content.blocks) |->
                       IF content.blocks[i].isDict /\ content.blocks[i].hasText
                       THEN content.blocks[i].text
                       ELSE content.blocks[i].repr ])
    ELSE "'" \o content.text \o "'"

_extract_content(content) ==
    IF content.kind = "str"
    THEN content.text
    ELSE IF content.kind = "list"
    THEN JoinLines([ i \in 1..Len(content.blocks) |->
                       IF content.blocks[i].isDict /\ content.blocks[i].hasText
                       THEN content.blocks[i].text
                       ELSE content.blocks[i].repr ])
    ELSE content.text

Msg(type, content, tool_calls, tool_call_id) ==
    [ type |-> type, content |-> content, tool_calls |-> tool_calls,
      tool_call_id |-> tool_call_id ]
HumanMessage(s) == Msg("human", StrBody(s), << >>, NoneVal)
SystemMessage(s) == Msg("system", StrBody(s), << >>, NoneVal)
AIMessage(body, tool_calls) == Msg("ai", body, tool_calls, NoneVal)
ToolMessage(s, id) == Msg("tool", StrBody(s), << >>, id)

\* ------------------------------------------------------------------- JSON
DoneJson == "{\"agent\": \"__done__\", \"response\": \"X\"}"
AgentJson == "{\"agent\": \"writer_1\"}"
DelegateJson == "{\"delegate\": \"coder_0\"}"
PlainJson == "{\"note\": 1}"
DelegateWriterJson == "{\"delegate\": \"writer_1\"}"
UnknownAgentJson == "{\"agent\": \"nobody\"}"
UnknownMentionJson == "{\"agent\": \"nobody\", \"note\": \"writer_2\"}"
UnknownDelegateJson == "{\"delegate\": \"nobody\"}"
DoneEmptyJson == "{\"agent\": \"__done__\", \"response\": \"\"}"
\* Prose that names agents, in upper case, in lower case, and two of them.
UpperProse == "ask WRITER_1 to draft it"
MentionProse == "let coder_0 handle it"
BothProse == "writer_2 first, then writer_1"

\* str.strip() on the texts of the model.
Strip(s) == CASE s = " 42\n" -> "42" [] OTHER -> s

JsonObject(agent, delegate, response) ==
    [ kind |-> "object", agent |-> agent, delegate |-> delegate,
      response |-> response ]
\* json.loads on the texts of the model: a JSON object (with the keys the code
\* reads), another JSON value, or a decode error.
JsonLoads(s) ==
    CASE s = DoneJson -> JsonObject("__done__", Absent, "X")
      [] s = AgentJson -> JsonObject("writer_1", Absent, Absent)
      [] s = DelegateJson -> JsonObject(Absent, "coder_0", Absent)
      [] s = PlainJson -> JsonObject(Absent, Absent, Absent)
      [] s = DelegateWriterJson -> JsonObject(Absent, "writer_1", Absent)
      [] s = UnknownAgentJson -> JsonObject("nobody", Absent, Absent)
      [] s = UnknownMentionJson -> JsonObject("nobody", Absent, Absent)
      [] s = UnknownDelegateJson -> JsonObject(Absent, "nobody", Absent)
      [] s = DoneEmptyJson -> JsonObject("__done__", Absent, "")
      [] s \in {"42", " 42\n", "[1]", "\"hi\"", "null"} ->
            [ kind |-> "other", agent |-> Absent, delegate |-> Absent,
              response |-> Absent ]
      [] OTHER ->
            [ kind |-> "invalid", agent |-> Absent, delegate |-> Absent,
              response |-> Absent ]

\* The names of the agents of the routed pipelines of the model.
RoutedNames == { "coder_0", "writer_1", "writer_2" }

\* The content of the message a failing agent node returns, and its lower
\* case.
ModelFailureText(name) == "Error in agent '" \o name \o "': model unavailable"
ModelFailureLower(name) == "error in agent '" \o name \o "': model unavailable"

\* str.lower() on the texts of the model: only UpperProse, DoneJson and the
\* failure texts hold upper-case letters.
Lower(s) ==
    CASE s = UpperProse -> "ask writer_1 to draft it"
      [] s = DoneJson -> "{\"agent\": \"__done__\", \"response\": \"x\"}"
      [] s \in { ModelFailureText(n) : n \in RoutedNames } ->
            ModelFailureLower(CHOOSE n \in RoutedNames : s = ModelFailureText(n))
      [] OTHER -> s

\* The agent names (lower case) that are substrings of a lower-case text of
\* the model.
NamesIn(lowered) ==
    CASE lowered \in { AgentJson, DelegateWriterJson, Lower(UpperProse) } ->
            { "writer_1" }
      [] lowered \in { DelegateJson, MentionProse } -> { "coder_0" }
      [] lowered = UnknownMentionJson -> { "writer_2" }
      [] lowered = BothProse -> { "writer_1", "writer_2" }
      [] lowered \in { ModelFailureLower(n) : n \in RoutedNames } ->
            { CHOOSE n \in RoutedNames : lowered = ModelFailureLower(n) }
      [] OTHER -> { }

\* `name.lower() in content_lower`.
Occurs(name, content_lower) == Lower(name) \in NamesIn(content_lower)

\* ------------------------------------------------------------------ tools
ACCEPTED == "__ACCEPTED__"
REJECTED == "__REJECTED__:"
\* Arguments that fail the tool's argument schema: the invocation raises.
BadArgs == "<invalid>"

ToolCall(name, arg, id) == [ name |-> name, arg |-> arg, id |-> id ]

\* What the tool function returns for valid arguments (builtins.py); the
\* tools that call external services return a text in every case.
ToolResult(name, arg) ==
    CASE name = "accept_output" -> ACCEPTED
      [] name = "reject_output" -> REJECTED \o " " \o arg
      [] OTHER -> "result of " \o name

\* `marker in content` on the tool results of the model.
Contains(content, marker) ==
    CASE marker = ACCEPTED ->
            content \in { ACCEPTED, REJECTED \o " " \o ACCEPTED }
      [] marker = REJECTED ->
            content \in { REJECTED \o " weak", REJECTED \o " " \o ACCEPTED }
      [] OTHER -> FALSE

\* _execute_tool_calls: every call in order; an unbound tool name (KeyError)
\* or a raising invocation ends it with the failure's text.
RECURSIVE _execute_tool_calls(_, _)
_execute_tool_calls(tool_calls, tools) ==
    IF tool_calls = << >>
    THEN [ ok |-> TRUE, results |-> << >>, err |-> "" ]
    ELSE LET tc == Head(tool_calls)
             bound == \E i \in 1..Len(tools) : tools[i] = tc.name
         IN  IF ~bound
             THEN [ ok |-> FALSE, results |-> << >>, err |-> "'" \o tc.name \o "'" ]
             ELSE IF tc.arg = BadArgs
             THEN [ ok |-> FALSE, results |-> << >>, err |-> "validation error" ]
             ELSE LET rest == _execute_tool_calls(Tail(tool_calls), tools)
                      tm == ToolMessage(ToolResult(tc.name, tc.arg), tc.id)
                  IN  IF rest.ok
                      THEN [ rest EXCEPT !.results = << tm >> \o rest.results ]
                      ELSE rest

\* ------------------------------------------------------------ graph state
Unset == "<unset>"
\* A node's return value: the keys a node does not return are Unset (-1 for
\* retry_count).
Update(messages, current_agent, final_response, validation_result, retry_count) ==
    [ messages |-> messages, current_agent |-> current_agent,
      final_response |-> final_response,
      validation_result |-> validation_result, retry_count |-> retry_count ]

ApplyUpdate_no_reducer(st, up) ==
    [ messages |-> up.messages,
      current_agent |-> up.current_agent,
      final_response |-> up.final_response,
      validation_result |->
          IF up.validation_result = Unset THEN st.validation_result
          ELSE up.validation_result,
      retry_count |->
          IF up.retry_count = -1 THEN st.retry_count ELSE up.retry_count ]

\* The state reducers: add_messages appends, every other key is overwritten
\* when the node returned it.
ApplyUpdate(st, up) ==
    [ messages |-> st.messages \o up.messages,
      current_agent |-> up.current_agent,
      final_response |-> up.final_response,
      validation_result |->
          IF up.validation_result = Unset THEN st.validation_result
          ELSE up.validation_result,
      retry_count |->
          IF up.retry_count = -1 THEN st.retry_count ELSE up.retry_count ]

\* ------------------------------------------------------------------ nodes
AgentReturn_resets_count(agent_name, response) ==
    Update(<< response >>, agent_name, _extract_content(response.content),
           Unset, 0)

\* agent_node and decentralised_node, normal return.
AgentReturn(agent_name, response) ==
    Update(<< response >>, agent_name, _extract_content(response.content),
           Unset, -1)

AgentError_silent(agent_name, e) == Update(<< >>, agent_name, e, Unset, -1)

\* agent_node and decentralised_node, except branch.
AgentError(agent_name, e) ==
    Update(<< AIMessage(StrBody("Error in agent '" \o agent_name \o "': " \o e),
                        << >>) >>,
           agent_name, e, Unset, -1)

RECURSIVE ScanSentinels_last_wins(_)
ScanSentinels_last_wins(trs) ==
    IF trs = << >> THEN NoneVal
    ELSE LET content == trs[Len(trs)].content.text
         IN  IF Contains(content, ACCEPTED) THEN "accepted"
             ELSE IF Contains(content, REJECTED) THEN "rejected"
             ELSE ScanSentinels_last_wins(SubSeq(trs, 1, Len(trs) - 1))

\* The sentinel scan of validator_node: the first tool result that holds a
\* marker decides; the accepted marker is tested first on each result.
RECURSIVE ScanSentinels(_)
ScanSentinels(trs) ==
    IF trs = << >> THEN NoneVal
    ELSE LET content == Head(trs).content.text
         IN  IF Contains(content, ACCEPTED) THEN "accepted"
             ELSE IF Contains(content, REJECTED) THEN "rejected"
             ELSE ScanSentinels(Tail(trs))

validator_result_strict(trs) ==
    LET scanned == ScanSentinels(trs)
    IN  IF scanned # NoneVal THEN scanned
        ELSE IF trs = << >> THEN "accepted" ELSE "rejected"

\* validation_result as validator_node computes it after its loop.
validator_result(trs) ==
    LET scanned == ScanSentinels(trs)
    IN  IF scanned = NoneVal THEN "accepted" ELSE scanned

validator_retry_count_always_increments(st, validation_result) ==
    st.retry_count + 1

\* retry_count as validator_node returns it.
validator_retry_count(st, validation_result) ==
    IF validation_result = "rejected" THEN st.retry_count + 1
    ELSE st.retry_count

\* validator_node, normal return.
ValidatorReturn(st, agent_name, response, trs) ==
    LET validation_result == validator_result(trs)
    IN  Update(<< response >>, agent_name, _extract_content(response.content),
               validation_result, validator_retry_count(st, validation_result))

ValidatorError_no_increment(st, agent_name, e) ==
    Update(<< AIMessage(StrBody("Error in validator '" \o agent_name \o "': " \o e),
                        << >>) >>,
           agent_name, e, "rejected", st.retry_count)

ValidatorError_fixed_count(st, agent_name, e) ==
    Update(<< AIMessage(StrBody("Error in validator '" \o agent_name \o "': " \o e),
                        << >>) >>,
           agent_name, e, "rejected", 1)

\* validator_node, except branch.
ValidatorError(st, agent_name, e) ==
    Update(<< AIMessage(StrBody("Error in validator '" \o agent_name \o "': " \o e),
                        << >>) >>,
           agent_name, e, "rejected", st.retry_count + 1)

\* ---------------------------------------------------------------- routers
route_validation_off_by_one(st, first_agent_name) ==
    IF st.validation_result = "accepted" THEN "__accepted__"
    ELSE IF st.retry_count > MAX_RETRIES THEN "__error__"
    ELSE first_agent_name

route_validation_unbounded(st, first_agent_name) ==
    IF st.validation_result = "accepted" THEN "__accepted__"
    ELSE first_agent_name

route_validation(st, first_agent_name) ==
    IF st.validation_result = "accepted" THEN "__accepted__"
    ELSE IF st.retry_count >= MAX_RETRIES THEN "__error__"
    ELSE first_agent_name

\* Whether a name is an element of the list agent_names.
InList(name, agent_names) ==
    \E i \in 1..Len(agent_names) : agent_names[i] = name

\* The fallback loop of route_decision: the first name of agent_names that
\* occurs in the lower-case text, "__done__" when none does.
RECURSIVE FallbackScan(_, _)
FallbackScan(agent_names, content_lower) ==
    IF agent_names = << >> THEN "__done__"
    ELSE IF Occurs(Head(agent_names), content_lower) THEN Head(agent_names)
    ELSE FallbackScan(Tail(agent_names), content_lower)

route_decision_case_sensitive(st, agent_names) ==
    LET content == _extract_content(st.messages[Len(st.messages)].content)
        data == JsonLoads(Strip(content))
        target == IF data.agent = Absent THEN "" ELSE data.agent
    IN  IF data.kind = "object" /\ target = "__done__" THEN "__done__"
        ELSE IF data.kind = "object" /\ InList(target, agent_names) THEN target
        ELSE FallbackScan(agent_names, content)

route_decision_always_done(st, agent_names) == "__done__"

\* route_decision: the JSON attempt (a value that is not an object has no
\* .get: AttributeError, which the handler catches), then the fallback.
route_decision(st, agent_names) ==
    LET content == _extract_content(st.messages[Len(st.messages)].content)
        data == JsonLoads(Strip(content))
        target == IF data.agent = Absent THEN "" ELSE data.agent
    IN  IF data.kind = "object" /\ target = "__done__" THEN "__done__"
        ELSE IF data.kind = "object" /\ InList(target, agent_names) THEN target
        ELSE FallbackScan(agent_names, Lower(content))

route_delegation_with_fallback(st, agent_names) ==
    LET content == _extract_content(st.messages[Len(st.messages)].content)
        data == JsonLoads(Strip(content))
        target == IF data.delegate = Absent THEN "" ELSE data.delegate
    IN  IF data.kind = "object" /\ InList(target, agent_names) THEN target
        ELSE FallbackScan(agent_names, Lower(content))

\* route_delegation: the JSON attempt only.
route_delegation(st, agent_names) ==
    LET content == _extract_content(st.messages[Len(st.messages)].content)
        data == JsonLoads(Strip(content))
        target == IF data.delegate = Absent THEN "" ELSE data.delegate
    IN  IF data.kind = "object" /\ InList(target, agent_names) THEN target
        ELSE "__done__"

\* The routing result of the edge leaving a node, on the state after the
\* node's update ("" for a static edge), and the node it leads to.
RouteOf(node, st) ==
    CASE node.edge = "validation" -> route_validation(st, node.target)
      [] node.edge = "decision" -> route_decision(st, node.agent_names)
      [] node.edge = "delegation" -> route_delegation(st, node.agent_names)
      [] OTHER -> ""

NextNodeOf(node, route) ==
    CASE node.edge = "end" -> END
      [] node.edge = "next" -> node.target
      [] node.edge = "validation" ->
            IF route \in {"__accepted__", "__error__"} THEN END ELSE route
      [] node.edge \in {"decision", "delegation"} ->
            IF route = "__done__" THEN END ELSE route

\* ------------------------------------------------------------ run executor
Event(type, content, agent) ==
    [ type |-> type, content |-> content, agent |-> agent ]

Truthy(s) == s # NoneVal /\ s # ""

MsgCapture_surfaces_routing(content, fc) ==
    LET parsed == JsonLoads(Strip(content))
    IN  CASE parsed.kind = "other" -> [ fc |-> fc, raised |-> TRUE ]
          [] parsed.kind = "object" /\ parsed.agent = "__done__"
               /\ parsed.response # Absent /\ parsed.response # "" ->
                [ fc |-> parsed.response, raised |-> FALSE ]
          [] OTHER -> [ fc |-> content, raised |-> FALSE ]

\* Lines 143-153: what one message's text does to final_content.  A JSON
\* value that is not an object has no .get: the AttributeError is not among
\* the exceptions the inner handler catches.
MsgCapture(content, fc) ==
    LET parsed == JsonLoads(Strip(content))
    IN  CASE parsed.kind = "invalid" -> [ fc |-> content, raised |-> FALSE ]
          [] parsed.kind = "other" -> [ fc |-> fc, raised |-> TRUE ]
          [] parsed.kind = "object" ->
                IF parsed.agent = "__done__" /\ parsed.response # Absent
                       /\ parsed.response # ""
                THEN [ fc |-> parsed.response, raised |-> FALSE ]
                ELSE IF parsed.agent # Absent \/ parsed.delegate # Absent
                THEN [ fc |-> fc, raised |-> FALSE ]
                ELSE [ fc |-> content, raised |-> FALSE ]

\* Lines 137-153: the loop over the update's messages.
RECURSIVE CaptureMessages(_, _)
CaptureMessages(msgs, fc) ==
    IF msgs = << >> THEN [ fc |-> fc, raised |-> FALSE ]
    ELSE LET content == _extract_content(Head(msgs).content)
         IN  IF content = "" THEN CaptureMessages(Tail(msgs), fc)
             ELSE LET one == MsgCapture(content, fc)
                  IN  IF one.raised THEN one
                      ELSE CaptureMessages(Tail(msgs), one.fc)

\* Lines 156-165: the explicit final_response field.
FinalCapture(fr, fc) ==
    IF ~Truthy(fr) THEN [ fc |-> fc, raised |-> FALSE ]
    ELSE LET parsed == JsonLoads(fr)
         IN  CASE parsed.kind = "invalid" -> [ fc |-> fr, raised |-> FALSE ]
               [] parsed.kind = "other" -> [ fc |-> fc, raised |-> TRUE ]
               [] parsed.kind = "object" ->
                     IF parsed.agent = "__done__" /\ parsed.response # Absent
                            /\ parsed.response # ""
                     THEN [ fc |-> parsed.response, raised |-> FALSE ]
                     ELSE [ fc |-> fc, raised |-> FALSE ]

ProcessUpdate_always_status(up, last, fc) ==
    LET current == up.current_agent
        rejected == IF up.validation_result = "rejected"
                    THEN << Event("validation_rejected",
                                  "Pipeline output rejected, retrying...", current) >>
                    ELSE << >>
        m == CaptureMessages(up.messages, fc)
        f == IF m.raised THEN m ELSE FinalCapture(up.final_response, m.fc)
    IN  [ events |-> << Event("status", "Agent '" \o current \o "' processing...",
                              current) >> \o rejected,
          last |-> current, fc |-> f.fc, raised |-> f.raised ]

\* Lines 114-165: the events one streamed update yields, the new last_agent
\* and final_content, and whether handling the update raised.
ProcessUpdate(up, last, fc) ==
    LET current == up.current_agent
        status == IF current # last
                  THEN << Event("status", "Agent '" \o current \o "' processing...",
                                current) >>
                  ELSE << >>
        rejected == IF up.validation_result = "rejected"
                    THEN << Event("validation_rejected",
                                  "Pipeline output rejected, retrying...", current) >>
                    ELSE << >>
        m == CaptureMessages(up.messages, fc)
        f == IF m.raised THEN m ELSE FinalCapture(up.final_response, m.fc)
    IN  [ events |-> status \o rejected, last |-> current, fc |-> f.fc,
          raised |-> f.raised ]

\* Lines 168-173: the token event after the stream ends.
TokenEvents(fc, last) ==
    IF Truthy(fc) THEN << Event("token", fc, last) >> ELSE << >>

ErrorEvent(text) == Event("error", text, NoneVal)
DoneEvent == Event("done", "", NoneVal)

BuildErrorEvents_with_status ==
    << Event("status", "Processing request...", NoneVal),
       ErrorEvent("Graph build error"), DoneEvent >>

\* Lines 92-96: what execute_run yields when resolving or building fails.
BuildErrorEvents == << ErrorEvent("Graph build error"), DoneEvent >>

ExecErrorEvents_return == << ErrorEvent("Execution error") >>

ExecErrorEvents_silent == << DoneEvent >>

\* Lines 175-179: what execute_run yields when driving the graph raises.
ExecErrorEvents == << ErrorEvent("Execution error"), DoneEvent >>

StreamEndEvents_token_kept(fc, last) ==
    << Event("token", "partial", last) >> \o TokenEvents(fc, last)
        \o << DoneEvent >>

\* Lines 167-179: what execute_run yields when the stream ends.
StreamEndEvents(fc, last) == TokenEvents(fc, last) \o << DoneEvent >>

\* ------------------------------------------------------------------ state
VARIABLES
    cache,          \* _cache: pipeline id -> [hash, graph]
    builds,         \* number of graphs built so far (a built graph's identity)
    lastCall,       \* the last cache operation, its arguments and its result
    pc,             \* execute_run: "idle", "running" or "done"
    system,         \* the SystemConfig of the run
    graph,          \* the compiled graph the run drives
    state,          \* the graph's AgentState
    cur,            \* the node being executed
    npc,            \* the node's position: "invoke", "tools", "guard", "idle"
    wmsgs,          \* the node's local message list
    tool_results,   \* the node's local tool_results
    response,       \* the node's local response
    rounds,         \* tool rounds of this node execution so far
    events,         \* the chunks execute_run has yielded
    last_agent,     \* execute_run's last_agent
    final_content,  \* execute_run's final_content
    result,         \* how the run ended
    executed,       \* the nodes executed, in order
    lastRoute,      \* the routing result after the last executed node
    retried,        \* times the validator's edge back to the first agent was taken
    runs            \* the concurrent runs: run number -> that run's locals

cacheVars == << cache, builds, lastCall >>
nodeVars == << cur, npc, wmsgs, tool_results, response, rounds >>
runVars == << pc, system, graph, state, events, last_agent, final_content,
              result, executed, lastRoute, retried >>
vars == << cacheVars, nodeVars, runVars, runs >>

NoSystem ==
    [ id |-> "", name |-> "", description |-> NoneVal, topology |-> "single",
      agents |-> << >> ]
NoGraph == [ gid |-> 0, g |-> [ entry |-> END, nodes |-> << >> ],
             src |-> NoSystem ]
NoCall == [ op |-> "none", id |-> NoneVal, system |-> NoSystem, built |-> FALSE,
            graph |-> NoGraph, before |-> << >> ]
NoResponse == AIMessage(StrBody(""), << >>)

\* A call of execute_run that has not started: the locals of the generator.
IdleRun ==
    [ pc |-> "idle", system |-> NoSystem, graph |-> NoGraph, built |-> FALSE,
      state |-> [ messages |-> << >>, current_agent |-> NoneVal,
                  final_response |-> NoneVal, retry_count |-> 0,
                  validation_result |-> NoneVal ],
      cur |-> END, events |-> << >>, last_agent |-> NoneVal,
      final_content |-> NoneVal, result |-> "none", outcomes |-> << >> ]

\* The initial_state of execute_run.
InitialState(prompt) ==
    [ messages |-> << HumanMessage(prompt) >>, current_agent |-> NoneVal,
      final_response |-> NoneVal, retry_count |-> 0,
      validation_result |-> NoneVal ]

Init ==
    /\ cache = << >>
    /\ builds = 0
    /\ lastCall = NoCall
    /\ pc = "idle"
    /\ system = NoSystem
    /\ graph = NoGraph
    /\ state = InitialState("")
    /\ cur = END
    /\ npc = "idle"
    /\ wmsgs = << >>
    /\ tool_results = << >>
    /\ response = NoResponse
    /\ rounds = 0
    /\ events = << >>
    /\ last_agent = NoneVal
    /\ final_content = NoneVal
    /\ result = "none"
    /\ executed = << >>
    /\ lastRoute = ""
    /\ retried = 0
    /\ runs = [ r \in 1..NumRuns |-> IdleRun ]

\* ------------------------------------------------------------------ inputs
AgentRef(type, prompt) == [ type |-> type, prompt |-> prompt ]
SystemConfig(id, topology, agents) ==
    [ id |-> id, name |-> "pipeline", description |-> NoneVal,
      topology |-> topology, agents |-> agents ]

\* A pipeline of n agents: writers, the last one a validator when n >= 2.
Pipeline(id, topology, n, prompt) ==
    SystemConfig(id, topology,
        [ i \in 1..n |->
            AgentRef(IF n >= 2 /\ i = n THEN "validator" ELSE "writer", prompt) ])

\* The systems whose graph cannot be built: an agent type that is not
\* registered, an agent whose tool is not registered, a topology build_graph
\* does not know.
UnbuildableSystems ==
    { SystemConfig("s1", "single", << AgentRef("ghost", "p") >>),
      SystemConfig("s1", "sequential",
                   << AgentRef("writer", "p"), AgentRef("stale", "p") >>),
      SystemConfig("s1", "mesh", << AgentRef("writer", "p") >>) }

\* The systems execute_run is called with: single and sequential pipelines,
\* and those that cannot be built.
RunSystems ==
    { Pipeline("s1", x[1], x[2], "p") :
        x \in {"single", "sequential"} \X (1..MaxAgents) }
    \cup UnbuildableSystems

\* The bodies a model invocation answers with when it requests no tool:
\* prose, and a text that is a JSON number.
RunBodies == { StrBody("draft"), StrBody("42") }

\* The tool requests a model response carries: name and argument.
RunCalls ==
    { << "accept_output", "ok" >>, << "reject_output", "weak" >>,
      << "parse_document", "a.pdf" >> }

\* The requests among calls that name a tool bound to the current node.
BoundCalls(calls) ==
    { c \in calls :
        \E i \in 1..Len(NodeOf(graph.g, cur).tools) :
            NodeOf(graph.g, cur).tools[i] = c[1] }

\* The batches of 1..MaxToolCalls requests over a set of requests; the
\* correlation id of a request is its position in the response.
BatchesUpTo(calls, max_calls) ==
    UNION { { [ i \in 1..n |-> ToolCall(f[i][1], f[i][2], "call_" \o ToString(i)) ] :
                f \in [ 1..n -> calls ] } : n \in 1..max_calls }

Batches(calls) == BatchesUpTo(calls, MaxToolCalls)

\* ----------------------------------------------------------------- actions
CacheCall(op, id, sys, built, g) ==
    [ op |-> op, id |-> id, system |-> sys, built |-> built, graph |-> g,
      before |-> cache ]

\* Whether get_or_build returns without raising: a cache hit, or a build
\* that succeeds.
GetOrBuildReturns(c, sys, agents) ==
    \/ sys.id \in DOMAIN c /\ c[sys.id].hash = _hash_system(sys, agents)
    \/ BuildSucceeds(sys, agents)

\* The local message list a node starts with.
NodeMessages(g, name, st) ==
    << SystemMessage(NodeOf(g, name).prompt) >> \o st.messages

\* execute_run up to the first streamed update (lines 84-113), for a system
\* of the given set.
StartRunOf(systems) ==
    /\ pc = "idle"
    /\ \E sys \in systems :
         /\ system' = sys
         /\ IF AgentsResolve(sys) /\ GetOrBuildReturns(cache, sys, MergeAgents(sys))
            THEN LET r == get_or_build(cache, sys, MergeAgents(sys), builds + 1)
                     st == InitialState("hi")
                 IN  /\ cache' = r.cache
                     /\ builds' = IF r.built THEN builds + 1 ELSE builds
                     /\ lastCall' = CacheCall("get_or_build", sys.id, sys, r.built,
                                              r.graph)
                     /\ graph' = r.graph
                     /\ state' = st
                     /\ events' = << Event("status", "Processing request...",
                                           NoneVal) >>
                     /\ pc' = "running"
                     /\ cur' = r.graph.g.entry
                     /\ npc' = "invoke"
                     /\ wmsgs' = NodeMessages(r.graph.g, r.graph.g.entry, st)
                     /\ UNCHANGED result
            ELSE /\ events' = BuildErrorEvents
                 /\ pc' = "done"
                 /\ result' = "build_error"
                 /\ UNCHANGED << cacheVars, graph, state, cur, npc, wmsgs >>
    /\ UNCHANGED << tool_results, response, rounds, last_agent, final_content,
                    executed, lastRoute, retried, runs >>

StartRun == StartRunOf(RunSystems)

\* A node's return value, by node kind.
NormalUpdate(node, st, resp, trs) ==
    IF node.kind = "validator"
    THEN ValidatorReturn(st, node.name, resp, trs)
    ELSE AgentReturn(node.name, resp)

ErrorUpdate(node, st, e) ==
    IF node.kind = "validator"
    THEN ValidatorError(st, node.name, e)
    ELSE AgentError(node.name, e)

\* The node returns update up: the graph applies it and evaluates the edge
\* leaving the node, execute_run handles the streamed update, and either
\* the next node starts or the stream ends and execute_run finishes.
Finish(up) ==
    LET node == NodeOf(graph.g, cur)
        st == ApplyUpdate(state, up)
        route == RouteOf(node, st)
        nxt == NextNodeOf(node, route)
        pu == ProcessUpdate(up, last_agent, final_content)
    IN  /\ state' = st
        /\ executed' = Append(executed, cur)
        /\ lastRoute' = route
        /\ last_agent' = pu.last
        /\ final_content' = pu.fc
        /\ tool_results' = IF pu.raised \/ nxt = END THEN tool_results ELSE << >>
        /\ response' = NoResponse
        /\ rounds' = 0
        /\ IF pu.raised
           THEN /\ events' = events \o pu.events \o ExecErrorEvents
                /\ pc' = "done"
                /\ result' = "exec_error"
                /\ npc' = "idle"
                /\ wmsgs' = << >>
                /\ UNCHANGED << cur, retried >>
           ELSE IF nxt = END
           THEN /\ events' = events \o pu.events \o StreamEndEvents(pu.fc, pu.last)
                /\ pc' = "done"
                /\ result' = IF route = "" THEN "end" ELSE route
                /\ npc' = "idle"
                /\ wmsgs' = << >>
                /\ UNCHANGED << cur, retried >>
           ELSE /\ events' = events \o pu.events
                /\ cur' = nxt
                /\ npc' = "invoke"
                /\ wmsgs' = NodeMessages(graph.g, nxt, st)
                /\ retried' = IF node.edge = "validation" THEN retried + 1
                              ELSE retried
                /\ UNCHANGED << pc, result >>
        /\ UNCHANGED << cacheVars, system, graph, runs >>

\* The model invocation of the loop fails (or _get_llm raises).
ModelFails ==
    /\ pc = "running" /\ npc = "invoke"
    /\ Finish(ErrorUpdate(NodeOf(graph.g, cur), state, "model unavailable"))

\* The model invocation of the loop returns a response that requests tools:
\* one of the batches of up to max_calls requests, in one of the first
\* max_rounds rounds of the node's loop.
RequestsTools(calls, max_rounds, max_calls) ==
    /\ pc = "running" /\ npc = "invoke"
    /\ NodeOf(graph.g, cur).tools # << >>
    /\ rounds < max_rounds
    /\ \E batch \in BatchesUpTo(calls, max_calls) :
         /\ response' = AIMessage(StrBody(""), batch)
         /\ wmsgs' = Append(wmsgs, AIMessage(StrBody(""), batch))
    /\ npc' = "tools"
    /\ rounds' = rounds + 1
    /\ UNCHANGED << cacheVars, cur, tool_results, pc, system, graph, state,
                    events, last_agent, final_content, result, executed,
                    lastRoute, retried, runs >>

ModelRequestsTools(calls) == RequestsTools(calls, MaxToolRounds, MaxToolCalls)

\* _execute_tool_calls on the response's requests, and what follows it.
ExecuteTools ==
    /\ pc = "running" /\ npc = "tools"
    /\ LET node == NodeOf(graph.g, cur)
           r == _execute_tool_calls(response.tool_calls, node.tools)
       IN  IF r.ok
           THEN /\ tool_results' = IF node.kind = "validator"
                                   THEN tool_results \o r.results
                                   ELSE r.results
                /\ wmsgs' = wmsgs \o r.results
                /\ npc' = "invoke"
                /\ UNCHANGED << cacheVars, cur, response, rounds, runVars, runs >>
           ELSE Finish(ErrorUpdate(node, state, r.err))

ModelAnswers_no_guard(bodies) ==
    /\ pc = "running" /\ npc = "invoke"
    /\ \E body \in bodies :
         Finish(NormalUpdate(NodeOf(graph.g, cur), state, AIMessage(body, << >>),
                             tool_results))

\* The model invocation of the loop returns a response without tool requests:
\* the loop ends; an empty text of an agent with tools leads to the extra
\* invocation, anything else to the node's return.
ModelAnswers(bodies) ==
    /\ pc = "running" /\ npc = "invoke"
    /\ \E body \in bodies :
         LET node == NodeOf(graph.g, cur)
             resp == AIMessage(body, << >>)
         IN  IF node.tools # << >> /\ _extract_content(body) = ""
             THEN /\ npc' = "guard"
                  /\ response' = resp
                  /\ UNCHANGED << cacheVars, cur, wmsgs, tool_results, rounds,
                                  pc, system, graph, state, events, last_agent,
                                  final_content, result, executed, lastRoute,
                                  retried, runs >>
             ELSE Finish(NormalUpdate(node, state, resp, tool_results))

\* The extra invocation without tools returns a response.
GuardAnswers(bodies) ==
    /\ pc = "running" /\ npc = "guard"
    /\ \E body \in bodies :
         Finish(NormalUpdate(NodeOf(graph.g, cur), state, AIMessage(body, << >>),
                             tool_results))

\* The extra invocation without tools fails.
GuardFails ==
    /\ pc = "running" /\ npc = "guard"
    /\ Finish(ErrorUpdate(NodeOf(graph.g, cur), state, "model unavailable"))

Next ==
    \/ StartRun
    \/ ModelFails
    \/ ModelRequestsTools(BoundCalls(RunCalls))
    \/ ExecuteTools
    \/ ModelAnswers(RunBodies)

Spec == Init /\ [][Next]_vars

\* ------------------------------------------------------- one node's loop
\* The pipelines of the node specification: one agent, and an agent followed
\* by a validator.
NodeSystems ==
    { Pipeline("s1", "single", 1, "p"), Pipeline("s1", "sequential", 2, "p") }

\* The bodies of a response without tool requests: prose, and an empty text.
NodeBodies == { StrBody("draft"), StrBody("") }

\* The tool requests of the node specification.  parse_document is bound to
\* the agent and not to the validator, reject_output to the validator and
\* not to the agent; the second request's arguments are rejected by the
\* tool's schema.
NodeCalls ==
    { << "parse_document", "a.pdf" >>, << "parse_document", BadArgs >>,
      << "reject_output", "weak" >> }

NodeNext ==
    \/ StartRunOf(NodeSystems)
    \/ ModelFails
    \/ ModelRequestsTools(NodeCalls)
    \/ ExecuteTools
    \/ ModelAnswers(NodeBodies)
    \/ GuardAnswers(NodeBodies)
    \/ GuardFails

NodeSpec == Init /\ [][NodeNext]_vars

\* -------------------------------------------------------- routed pipelines
\* An orchestrator with two specialists, and two peers that delegate.
RouteSystems ==
    { SystemConfig("s1", "orchestrator",
                   << AgentRef("coder", "p"), AgentRef("writer", "p"),
                      AgentRef("writer", "p") >>),
      SystemConfig("s1", "decentralised",
                   << AgentRef("coder", "p"), AgentRef("writer", "p") >>) }

\* The texts a model answers with in the routing specification: routing
\* and delegation JSON with known and unknown targets, prose that names
\* agents or none, and a JSON value that is not an object.
RouteBodies ==
    { StrBody(t) : t \in { AgentJson, DoneJson, UnknownAgentJson,
                           UnknownMentionJson, DelegateJson, DelegateWriterJson,
                           UnknownDelegateJson, "not json", UpperProse,
                           MentionProse, BothProse, "42", DoneEmptyJson,
                           PlainJson } }

RouteNext ==
    \/ StartRunOf(RouteSystems)
    \/ Len(executed) < MaxSteps /\ ModelFails
    \/ Len(executed) < MaxSteps /\ ModelAnswers(RouteBodies)

RouteSpec == Init /\ [][RouteNext]_vars

\* ------------------------------------------------------- the graph's state
\* Runs of every kind of node: the routed pipelines, and an agent followed
\* by a validator.
StateSystems == RouteSystems \cup { Pipeline("s1", "sequential", 2, "p") }

\* The texts of a response without tool requests: prose, a routing payload
\* and a delegation.
StateBodies ==
    { StrBody(t) : t \in { "draft", AgentJson, DelegateWriterJson } }

\* The tool requests: the two tools of the validator.
StateCalls == { << "accept_output", "ok" >>, << "reject_output", "weak" >> }

\* The runs are followed for MaxSteps node executions.
StateNext ==
    \/ StartRunOf(StateSystems)
    \/ Len(executed) < MaxSteps /\ ModelFails
    \/ ModelRequestsTools(BoundCalls(StateCalls))
    \/ ExecuteTools
    \/ Len(executed) < MaxSteps /\ ModelAnswers(StateBodies)

StateSpec == Init /\ [][StateNext]_vars

\* ------------------------------------------------------ content extraction
\* The blocks of a list content: text blocks, a dict without a "text" key
\* and an object that is not a dict.
ExtractBlocks ==
    { TextBlock("a"), TextBlock("b"), TextBlock(""),
      DictBlock("{'type': 'tool_use'}"), OtherBlock("<block>") }

\* The contents of a response: strings, lists of up to MaxBlocks blocks,
\* and values that are neither.
ExtractBodies ==
    { StrBody(t) : t \in { "draft", "", "42", " 42\n", "a\nb", "[1]" } }
    \cup UNION { { ListBody(bs) : bs \in [ 1..n -> ExtractBlocks ] } :
                   n \in 0..MaxBlocks }
    \cup { OtherBody("None"), OtherBody("7") }

\* The response whose content is extracted.
ExtractInit ==
    /\ cache = << >> /\ builds = 0 /\ lastCall = NoCall
    /\ pc = "idle" /\ system = NoSystem /\ graph = NoGraph
    /\ state = InitialState("")
    /\ cur = END /\ npc = "idle" /\ wmsgs = << >> /\ tool_results = << >>
    /\ response \in { AIMessage(b, << >>) : b \in ExtractBodies }
    /\ rounds = 0 /\ events = << >> /\ last_agent = NoneVal
    /\ final_content = NoneVal /\ result = "none" /\ executed = << >>
    /\ lastRoute = "" /\ retried = 0
    /\ runs = [ r \in 1..NumRuns |-> IdleRun ]

\* _extract_content applied to the response's content, and then to its own
\* result: wmsgs collects the results, each a plain string.
Extract ==
    /\ pc = "idle" /\ Len(wmsgs) < MaxExtracts
    /\ LET content == IF wmsgs = << >> THEN response.content
                      ELSE wmsgs[Len(wmsgs)].content
       IN  wmsgs' = Append(wmsgs, AIMessage(StrBody(_extract_content(content)),
                                            << >>))
    /\ UNCHANGED << cacheVars, cur, npc, tool_results, response, rounds,
                    runVars, runs >>

ExtractNext == Extract

ExtractSpec == ExtractInit /\ [][ExtractNext]_vars

\* ------------------------------------------------- pipelines of one agent
\* Sequential and single pipelines whose one agent is a writer, a coder or
\* a validator.
SoloSystems ==
    { SystemConfig("s1", x[1], << AgentRef(x[2], "p") >>) :
        x \in { "sequential", "single" } \X { "writer", "coder", "validator" } }

\* The tool requests: the tools of the three agent types, and arguments that
\* a tool's schema rejects.
SoloCalls ==
    RunCalls \cup { << "calculate", "1+1" >>, << "parse_document", BadArgs >> }

\* The texts of a response without tool requests: prose, a JSON number, a
\* JSON object and an empty text.
SoloBodies == { StrBody("draft"), StrBody("42"), StrBody(PlainJson), StrBody("") }

SoloNext ==
    \/ StartRunOf(SoloSystems)
    \/ ModelFails
    \/ ModelRequestsTools(BoundCalls(SoloCalls))
    \/ ExecuteTools
    \/ ModelAnswers(SoloBodies)
    \/ GuardAnswers(SoloBodies)
    \/ GuardFails

SoloSpec == Init /\ [][SoloNext]_vars

\* ------------------------------------------------------- the sentinel scan
\* An agent followed by a validator whose model requests tools in up to
\* MaxScan rounds of its loop.
ScanSystems == { Pipeline("s1", "sequential", 2, "p") }

ScanBodies == { StrBody("draft") }

ScanNext ==
    \/ StartRunOf(ScanSystems)
    \/ ModelFails
    \/ RequestsTools(BoundCalls(StateCalls), MaxScan, MaxToolCalls)
    \/ ExecuteTools
    \/ ModelAnswers(ScanBodies)

ScanSpec == Init /\ [][ScanNext]_vars

\* ------------------------------------------------------ rejection reasons
\* The reasons the validator's model passes to reject_output: a plain one,
\* and one that holds the accepted marker.
ReasonTexts == { "weak", ACCEPTED }

ReasonCalls ==
    { << "accept_output", "ok" >> }
    \cup { << "reject_output", reason >> : reason \in ReasonTexts }

ReasonNext ==
    \/ StartRunOf(ScanSystems)
    \/ ModelFails
    \/ ModelRequestsTools(BoundCalls(ReasonCalls))
    \/ ExecuteTools
    \/ ModelAnswers(ScanBodies)

ReasonSpec == Init /\ [][ReasonNext]_vars

\* -------------------------------------------- validators of another type
\* _build_sequential makes the last agent the validating node whatever its
\* type: pipelines whose last agent is a writer or a coder, whose tools
\* return no marker.
UnmarkedSystems ==
    { SystemConfig("s1", "sequential", << AgentRef("writer", "p"), AgentRef(t, "p") >>) :
        t \in { "writer", "coder" } }

UnmarkedCalls == { << "parse_document", "a.pdf" >>, << "calculate", "1+1" >> }

UnmarkedNext ==
    \/ StartRunOf(UnmarkedSystems)
    \/ ModelFails
    \/ RequestsTools(BoundCalls(UnmarkedCalls), MaxScan, MaxToolCalls)
    \/ ExecuteTools
    \/ ModelAnswers(ScanBodies)

UnmarkedSpec == Init /\ [][UnmarkedNext]_vars

\* ------------------------------------------------------------ long drives
\* The texts of the drive specification: a routing payload naming a
\* specialist, a terminating payload, delegations to the first and to the
\* second peer, and prose.
DriveBodies ==
    { StrBody(t) : t \in { AgentJson, DoneJson, DelegateJson, DelegateWriterJson,
                           "draft" } }

\* execute_run iterates over graph.astream(initial_state) and counts
\* nothing: the loop goes on for as long as the graph yields updates.  The
\* runs are followed for MaxDriven node executions.
DriveNext ==
    \/ StartRunOf(RouteSystems)
    \/ Len(executed) < MaxDriven /\ ModelFails
    \/ Len(executed) < MaxDriven /\ ModelAnswers(DriveBodies)

DriveSpec == Init /\ [][DriveNext]_vars

\* --------------------------------------------------------- concurrent runs
\* Calls of execute_run are coroutines of one event loop: a call runs
\* without interruption between two points where it awaits or yields.  Lines
\* 84-99 (merge_agent, get_or_build, the first yield) hold no await, and a
\* node's execution awaits only the model and the tools, which touch the
\* node's locals alone; so a run's steps are its start and its node
\* executions, and the steps of different runs interleave freely.

\* The pipeline of the concurrent runs: every run is of the same pipeline
\* with the same configuration.
ConcSystems == { Pipeline("s1", "sequential", 2, "p") }

\* What a node execution of a concurrent run ends with.  The agent's model
\* answers; the validator's model answers with prose or with a JSON number
\* (an implicit acceptance either way), or its invocation fails (a
\* rejection).
ConcOutcomes(node) ==
    IF node.kind = "validator"
    THEN { [ kind |-> "answer", body |-> StrBody("draft") ],
           [ kind |-> "answer", body |-> StrBody("42") ],
           [ kind |-> "fail", body |-> StrBody("") ] }
    ELSE { [ kind |-> "answer", body |-> StrBody("draft") ] }

\* The locals of execute_run after its first yield (lines 99-111).
StartedRun(sys, g, built) ==
    [ pc |-> "running", system |-> sys, graph |-> g, built |-> built,
      state |-> InitialState("hi"), cur |-> g.g.entry,
      events |-> << Event("status", "Processing request...", NoneVal) >>,
      last_agent |-> NoneVal, final_content |-> NoneVal, result |-> "none",
      outcomes |-> << >> ]

\* The value a node of the run returns for an outcome.
OutcomeUpdate(rec, o) ==
    LET node == NodeOf(rec.graph.g, rec.cur)
    IN  IF o.kind = "fail"
        THEN ErrorUpdate(node, rec.state, "model unavailable")
        ELSE NormalUpdate(node, rec.state, AIMessage(o.body, << >>), << >>)

\* One node execution of a run with the given outcome: the graph applies the
\* node's update and evaluates the edge, execute_run handles the update
\* (lines 113-179).
RunStep(rec, o) ==
    LET node == NodeOf(rec.graph.g, rec.cur)
        up == OutcomeUpdate(rec, o)
        st == ApplyUpdate(rec.state, up)
        route == RouteOf(node, st)
        nxt == NextNodeOf(node, route)
        pu == ProcessUpdate(up, rec.last_agent, rec.final_content)
        stepped == [ rec EXCEPT !.state = st, !.last_agent = pu.last,
                                !.final_content = pu.fc,
                                !.outcomes = Append(rec.outcomes, o) ]
    IN  IF pu.raised
        THEN [ stepped EXCEPT !.events = rec.events \o pu.events \o ExecErrorEvents,
                              !.pc = "done", !.result = "exec_error" ]
        ELSE IF nxt = END
        THEN [ stepped EXCEPT
                 !.events = rec.events \o pu.events
                                \o StreamEndEvents(pu.fc, pu.last),
                 !.pc = "done",
                 !.result = IF route = "" THEN "end" ELSE route ]
        ELSE [ stepped EXCEPT !.events = rec.events \o pu.events, !.cur = nxt ]

OwnedBy_shared(rs, r, rec) ==
    [ x \in DOMAIN rs |->
        IF x = r THEN rec
        ELSE IF rs[x].pc = "running" THEN [ rs[x] EXCEPT !.state = rec.state ]
        ELSE rs[x] ]

\* The locals of the runs after run r's locals became rec: initial_state
\* and the state the graph streams from it belong to the call that made
\* them.
OwnedBy(rs, r, rec) == [ rs EXCEPT ![r] = rec ]

\* Run r starts: it merges the agents, calls get_or_build and yields the
\* first status event.
ConcStart(r) ==
    /\ runs[r].pc = "idle"
    /\ \E sys \in ConcSystems :
         LET b == get_or_build(cache, sys, MergeAgents(sys), builds + 1)
         IN  /\ cache' = b.cache
             /\ builds' = IF b.built THEN builds + 1 ELSE builds
             /\ lastCall' = CacheCall("get_or_build", sys.id, sys, b.built, b.graph)
             /\ runs' = OwnedBy(runs, r, StartedRun(sys, b.graph, b.built))
    /\ UNCHANGED << nodeVars, runVars >>

\* The node run r is at executes and returns.
ConcStep(r) ==
    /\ runs[r].pc = "running"
    /\ \E o \in ConcOutcomes(NodeOf(runs[r].graph.g, runs[r].cur)) :
         runs' = OwnedBy(runs, r, RunStep(runs[r], o))
    /\ UNCHANGED << cacheVars, nodeVars, runVars >>

ConcNext ==
    \/ \E r \in 1..NumRuns : ConcStart(r)
    \/ \E r \in 1..NumRuns : ConcStep(r)

ConcSpec == Init /\ [][ConcNext]_vars

\* ------------------------------------------------------ cache operations
SystemIds == { "", "s1", "s2" }

\* The configurations get_or_build is called with: for each identifier, a
\* two-agent sequential pipeline with each agent's prompt one of two texts.
CacheSystems ==
    { SystemConfig(x[1], "sequential",
                   << AgentRef("writer", x[2]), AgentRef("validator", x[3]) >>) :
        x \in SystemIds \X {"p", "q"} \X {"p", "q"} }

\* A call of get_or_build, as execute_run makes it: with the merged agents
\* of the system.
GetOrBuild(systems) ==
    /\ \E sys \in systems :
         LET r == get_or_build(cache, sys, MergeAgents(sys), builds + 1)
         IN  /\ r.built => builds < MaxBuilds
             /\ cache' = r.cache
             /\ builds' = IF r.built THEN builds + 1 ELSE builds
             /\ lastCall' = CacheCall("get_or_build", sys.id, sys, r.built, r.graph)
    /\ UNCHANGED << nodeVars, runVars, runs >>

\* A call of invalidate: with a pipeline identifier, or with no argument.
Invalidate(ids) ==
    /\ \E id \in ids \cup { NoneVal } :
         /\ cache' = invalidate(cache, id)
         /\ lastCall' = CacheCall("invalidate", id, NoSystem, FALSE, NoGraph)
    /\ UNCHANGED << builds, nodeVars, runVars, runs >>

CacheNext ==
    \/ GetOrBuild(CacheSystems)
    \/ Invalidate(SystemIds)

CacheSpec == Init /\ [][CacheNext]_vars

\* A specification of one run under weak fairness of its steps: a model or
\* tool invocation that is awaited returns or fails.
FairSpec == Spec /\ WF_vars(Next)

\* ------------------------------------------------------------- properties
RECURSIVE CountType(_, _)
\* The number of events of a type in a sequence of events.
CountType(evs, type) ==
    IF evs = << >> THEN 0
    ELSE (IF Head(evs).type = type THEN 1 ELSE 0) + CountType(Tail(evs), type)

RECURSIVE CountOf(_, _)
\* The number of occurrences of a node name in a sequence of names.
CountOf(names, name) ==
    IF names = << >> THEN 0
    ELSE (IF Head(names) = name THEN 1 ELSE 0) + CountOf(Tail(names), name)

NotStatus(e) == e.type # "status"

\* The run is one of a sequential pipeline of at least two agents whose
\* graph was built.
SequentialRun ==
    /\ pc # "idle"
    /\ result # "build_error"
    /\ system.topology = "sequential"
    /\ Len(system.agents) >= 2

\* The run is one of the sequential pipeline [agent, validator].
AgentValidatorRun == SequentialRun /\ Len(system.agents) = 2

\* The current step is the return of the validating node.
ValidatorReturns ==
    /\ pc = "running"
    /\ NodeOf(graph.g, cur).kind = "validator"
    /\ executed' # executed

\* C1: every run of execute_run (build failure, drive-loop failure or normal
\* termination) yields exactly one done event, and it is the last event: a
\* finished run's stream ends with done, and no stream holds a done event
\* anywhere but at its end.
C1_DoneOnceAndLast ==
    /\ \A i \in 1..Len(events) : events[i].type = "done" => i = Len(events)
    /\ pc = "done" => /\ events # << >>
                      /\ events[Len(events)].type = "done"
                      /\ CountType(events, "done") = 1
    /\ pc # "done" => CountType(events, "done") = 0

\* C1 witness: a run whose drive loop failed has finished.
C1_Witness ==
    pc = "done" /\ result = "exec_error" /\ CountType(events, "error") = 1

\* C2: a single pipeline with one agent whose model returns the plain text
\* "42" yields, status events aside, exactly a token event with content "42"
\* and then done.
C2_SingleFortyTwo ==
    ( /\ pc = "done"
      /\ system = Pipeline("s1", "single", 1, "p")
      /\ Len(state.messages) = 2
      /\ state.messages[2].content = StrBody("42") )
    => LET shown == SelectSeq(events, NotStatus)
       IN  /\ Len(shown) = 2
           /\ shown[1].type = "token" /\ shown[1].content = "42"
           /\ shown[2].type = "done"

\* C3: in a run of [agent, validator] whose validator rejected every time it
\* ran, the finished stream holds exactly three validation_rejected events
\* and the run ended via the error path.
C3_ThreeRejections ==
    ( pc = "done" /\ AgentValidatorRun /\ state.validation_result = "rejected" )
    => /\ CountType(events, "validation_rejected") = 3
       /\ result = "__error__"

C5_NoTokenOnErrorPath ==
    ( pc = "done" /\ SequentialRun /\ result = "__error__" )
    => CountType(events, "token") = 0

\* C6: when the validating node of a sequential pipeline returns with
\* validation_result = accepted, retry_count is what it was before the node
\* ran and the conditional edge leads to termination.
C6_AcceptedTerminates ==
    [][ ( ValidatorReturns /\ state'.validation_result = "accepted" )
        => /\ state'.retry_count = state.retry_count
           /\ lastRoute' = "__accepted__"
           /\ pc' = "done"
           /\ retried' = retried ]_vars

\* C6 witness: a three-agent pipeline was accepted after two rejections.
C6_Witness ==
    /\ pc = "done" /\ SequentialRun /\ result = "__accepted__"
    /\ Len(system.agents) = 3
    /\ state.retry_count = 2

\* C7: every rejection by the validating node increases retry_count by
\* exactly 1, and a rejection that leaves retry_count >= 3 ends the run via
\* the error path: the edge back to the first agent is not taken.
C7_RejectionCountsAndCaps ==
    [][ ( ValidatorReturns /\ state'.validation_result = "rejected" )
        => /\ state'.retry_count = state.retry_count + 1
           /\ state'.retry_count >= MAX_RETRIES
                => /\ lastRoute' = "__error__"
                   /\ pc' = "done"
                   /\ retried' = retried ]_vars

\* C7 witness: the third rejection, by a failure of the validating node, has
\* ended the run.
C7_Witness ==
    /\ pc = "done" /\ SequentialRun /\ lastRoute = "__error__"
    /\ state.retry_count = 3
    /\ state.final_response = "model unavailable"

\* C8: a finished run of a sequential graph has reached terminate-success or
\* terminate-error.
C8_ReachesTerminal ==
    ( pc = "done" /\ SequentialRun ) => result \in { "__accepted__", "__error__" }

\* The configuration differs from src in the prompt of exactly one agent and
\* in nothing else.
OnePromptChanged(src, sys) ==
    /\ [ src EXCEPT !.agents = << >> ] = [ sys EXCEPT !.agents = << >> ]
    /\ Len(src.agents) = Len(sys.agents)
    /\ \A i \in 1..Len(sys.agents) : src.agents[i].type = sys.agents[i].type
    /\ Cardinality({ i \in 1..Len(sys.agents) :
                       src.agents[i].prompt # sys.agents[i].prompt }) = 1

\* The identities of the graphs a cache holds.
GidsOf(c) == { c[k].graph.gid : k \in DOMAIN c }

\* C9: get_or_build for a pipeline whose cache entry was made from the same
\* configuration builds nothing, returns the cached graph and leaves the
\* cache as it was; get_or_build for a pipeline whose cache entry was made
\* from a configuration that differs in one agent's prompt builds a new
\* graph, returns it and replaces the entry with it.
C9_HitOrRebuild ==
    ( lastCall.op = "get_or_build" /\ lastCall.id \in DOMAIN lastCall.before )
    => LET old == lastCall.before[lastCall.id]
       IN  /\ old.graph.src = lastCall.system
                => /\ ~lastCall.built
                   /\ lastCall.graph = old.graph
                   /\ cache = lastCall.before
           /\ OnePromptChanged(old.graph.src, lastCall.system)
                => /\ lastCall.built
                   /\ lastCall.graph.gid \notin GidsOf(lastCall.before)
                   /\ lastCall.graph.src = lastCall.system
                   /\ cache[lastCall.id].graph = lastCall.graph
                   /\ \A k \in DOMAIN lastCall.before \ { lastCall.id } :
                         cache[k] = lastCall.before[k]

\* C9 witness: a call rebuilt the graph of a cached pipeline one of whose
\* agents' prompts changed, while another pipeline was cached.
C9_Witness ==
    /\ lastCall.op = "get_or_build"
    /\ lastCall.id \in DOMAIN lastCall.before
    /\ OnePromptChanged(lastCall.before[lastCall.id].graph.src, lastCall.system)
    /\ lastCall.built
    /\ Cardinality(DOMAIN cache) = 2

\* C10: invalidate(id) removes exactly the entry of pipeline id, for every
\* identifier including the empty string, and invalidate() removes all
\* entries.
C10_InvalidateOne ==
    lastCall.op = "invalidate"
    => IF lastCall.id = NoneVal
       THEN DOMAIN cache = { }
       ELSE /\ DOMAIN cache = DOMAIN lastCall.before \ { lastCall.id }
            /\ \A k \in DOMAIN cache : cache[k] = lastCall.before[k]

\* Whether resolving the agents or building the graph of a system fails.
BuildFails(sys) ==
    IF AgentsResolve(sys) THEN ~BuildSucceeds(sys, MergeAgents(sys)) ELSE TRUE

\* C13: when agent resolution or graph compilation fails (unknown agent type,
\* unresolvable tool name, unknown topology), the run's stream is exactly one
\* error event followed by done: no status event is emitted, no node
\* executes, nothing is built or cached.
C13_BuildFailureStream ==
    ( pc # "idle" /\ BuildFails(system) )
    => /\ pc = "done" /\ result = "build_error"
       /\ Len(events) = 2
       /\ events[1].type = "error" /\ events[2].type = "done"
       /\ executed = << >>
       /\ builds = 0 /\ cache = << >>

\* C13 witness: a run of a pipeline whose validator type lists an
\* unregistered tool has ended.
C13_Witness ==
    /\ pc = "done" /\ result = "build_error"
    /\ system.topology = "sequential"
    /\ system.agents[2].type = "stale"

\* C14: a failure raised while the graph is driven ends the run with exactly
\* one error event, immediately before the done event that ends the stream.
C14_DriveFailureIsOneError ==
    ( pc = "done" /\ result = "exec_error" )
    => /\ CountType(events, "error") = 1
       /\ Len(events) >= 2
       /\ events[Len(events) - 1].type = "error"
       /\ events[Len(events)].type = "done"

\* C14 witness: handling the update of a validating node raised, after a
\* retry.
C14_Witness ==
    /\ pc = "done" /\ result = "exec_error"
    /\ executed # << >>
    /\ NodeOf(graph.g, executed[Len(executed)]).kind = "validator"
    /\ state.retry_count >= 1

\* Every request of the list names a tool of the list tools.
AllBound(tool_calls, tools) ==
    \A i \in 1..Len(tool_calls) : InList(tool_calls[i].name, tools)

\* The current step is a failure inside the loop of the node being executed:
\* a model invocation fails, or executing the requested tools fails.
NodeFails ==
    \/ ModelFails
    \/ GuardFails
    \/ /\ ExecuteTools
       /\ ~_execute_tool_calls(response.tool_calls,
                               NodeOf(graph.g, cur).tools).ok

\* C15: when the loop of a plain agent node fails (model invocation, name of
\* a tool that is not bound, tool failure), the node returns: the history
\* grows by exactly one message, an error text naming the agent, current_agent
\* is the node's name, and the graph follows the node's outgoing edge as after
\* a normal response; the run is not aborted.
C15_AgentFailureIsRecoverable ==
    [][ ( pc = "running" /\ NodeOf(graph.g, cur).kind = "agent" /\ NodeFails )
        => LET node == NodeOf(graph.g, cur)
               n == Len(state.messages)
           IN  /\ Len(state'.messages) = n + 1
               /\ SubSeq(state'.messages, 1, n) = state.messages
               /\ state'.messages[n + 1].type = "ai"
               /\ state'.messages[n + 1].content =
                      StrBody("Error in agent '" \o cur \o "': "
                                  \o state'.final_response)
               /\ state'.current_agent = cur
               /\ executed' = Append(executed, cur)
               /\ result' # "exec_error"
               /\ node.edge = "next"
                    => pc' = "running" /\ cur' = node.target /\ npc' = "invoke"
               /\ node.edge = "end" => pc' = "done" /\ result' = "end" ]_vars

\* C15 witness: the agent of [agent, validator] failed on a request for a
\* tool that is not bound to it, and the validator is running.
C15_Witness ==
    /\ pc = "running" /\ executed = << "writer_0" >> /\ cur = "validator_1"
    /\ state.final_response = "'reject_output'"

\* C16: when the loop of the validating node fails (model invocation, name
\* of a tool that is not bound), the node reports validation_result =
\* rejected and retry_count one more than before, and the routing is that of
\* a rejection.
C16_ValidatorFailureRejects ==
    [][ ( pc = "running" /\ NodeOf(graph.g, cur).kind = "validator" /\ NodeFails )
        => /\ state'.validation_result = "rejected"
           /\ state'.retry_count = state.retry_count + 1
           /\ lastRoute' = IF state.retry_count + 1 >= MAX_RETRIES
                            THEN "__error__" ELSE graph.g.entry ]_vars

\* C16 witness: the validating node failed a second time, on a request for
\* a tool that is not bound to it.
C16_Witness ==
    /\ state.validation_result = "rejected" /\ state.retry_count = 2
    /\ state.final_response = "'parse_document'"

\* C17: when every requested tool is bound and an invocation raises, the
\* failure is fed back to the model: the loop goes on with another model
\* invocation of the same node, the requests' results appended to the
\* working message list.
C17_ToolFailureFedBack ==
    [][ ( /\ pc = "running" /\ npc = "tools"
          /\ AllBound(response.tool_calls, NodeOf(graph.g, cur).tools)
          /\ \E i \in 1..Len(response.tool_calls) :
                response.tool_calls[i].arg = BadArgs )
        => /\ pc' = "running" /\ cur' = cur /\ npc' = "invoke"
           /\ executed' = executed
           /\ Len(wmsgs') = Len(wmsgs) + Len(response.tool_calls) ]_vars

\* The text of the last message of the history.
LastText == _extract_content(state.messages[Len(state.messages)].content)

\* The last node executed is a node of the given kind of edge, in a run of
\* the given topology.
JustRouted(topology, edge) ==
    /\ pc # "idle" /\ system.topology = topology
    /\ executed # << >>
    /\ NodeOf(graph.g, executed[Len(executed)]).edge = edge

\* C18: in an orchestrator run, the orchestrator's output {"agent":
\* "writer_1"} with writer_1 a specialist makes writer_1 the next node; its
\* output {"agent": "__done__", "response": "X"} ends the run, whose stream
\* ends with one token event of content X and done; its output "not json",
\* which names no agent, ends the run.
C18_OrchestratorRouting ==
    JustRouted("orchestrator", "decision")
    => /\ LastText = AgentJson
            => pc = "running" /\ cur = "writer_1" /\ lastRoute = "writer_1"
       /\ LastText = DoneJson
            => /\ pc = "done" /\ result = "__done__"
               /\ CountType(events, "token") = 1
               /\ events[Len(events) - 1] = Event("token", "X", "coder_0")
               /\ events[Len(events)].type = "done"
       /\ LastText = "not json" => pc = "done" /\ result = "__done__"

\* C18 witness: the orchestrator routed to a specialist and, after it,
\* ended the run with the answer X.
C18_Witness ==
    /\ JustRouted("orchestrator", "decision")
    /\ executed = << "coder_0", "writer_1", "coder_0" >>
    /\ LastText = DoneJson /\ pc = "done"

C20_DelegationRouting ==
    JustRouted("decentralised", "delegation")
    => LET data == JsonLoads(Strip(LastText))
           peers == { "coder_0", "writer_1" }
           delegates == data.kind = "object" /\ data.delegate \in peers
       IN  /\ delegates
                => lastRoute = data.delegate /\ pc = "running" /\ cur = lastRoute
           /\ ~delegates => lastRoute = "__done__" /\ pc = "done"

\* C20 witness: after a delegation, the peer answered with prose that names
\* the first agent, and the run ended.
C20_Witness ==
    /\ JustRouted("decentralised", "delegation")
    /\ executed = << "coder_0", "writer_1" >>
    /\ LastText = MentionProse /\ pc = "done"

\* The runs that have started.
Started == { r \in 1..NumRuns : runs[r].pc # "idle" }

\* C11: whatever the interleaving of the concurrent runs' calls of
\* get_or_build, the graph of a pipeline is built at most once: of the runs
\* of one pipeline at most one built it, all of them drive that one graph,
\* and there are no more builds than pipelines.
C11_BuiltAtMostOnce ==
    /\ \A r1, r2 \in Started :
          ( r1 # r2 /\ runs[r1].system = runs[r2].system )
          => /\ ~( runs[r1].built /\ runs[r2].built )
             /\ runs[r1].graph = runs[r2].graph
    /\ builds = Cardinality({ runs[r].system : r \in Started })

\* C11 witness: two runs of the same pipeline are under way, the graph was
\* built once.
C11_Witness ==
    /\ Started = 1..NumRuns
    /\ \A r \in Started : runs[r].system.id = "s1" /\ runs[r].pc = "running"
    /\ \E r \in Started : runs[r].outcomes # << >>
    /\ builds = 1

\* What a run of the pipeline produces when executed alone, with the given
\* outcomes of its node executions: it builds its graph and drives it.
RECURSIVE Replay(_, _)
Replay(rec, outcomes) ==
    IF outcomes = << >> THEN rec
    ELSE Replay(RunStep(rec, Head(outcomes)), Tail(outcomes))

Alone(sys, outcomes) ==
    Replay(StartedRun(sys, [ gid |-> 1, g |-> build_graph(sys, MergeAgents(sys)),
                             src |-> sys ], TRUE),
           outcomes)

LastExecuted == executed[Len(executed)]

\* C21: in a decentralised run the edge leaving an agent never leads to the
\* agent itself: after an agent's output, a delegate payload naming the
\* agent's own name included, the next node is not that agent.
C21_NoSelfDelegation ==
    ( JustRouted("decentralised", "delegation") /\ pc = "running" )
    => cur # LastExecuted

\* The run is one of an orchestrator or decentralised graph.
RoutedRun ==
    pc # "idle" /\ system.topology \in { "orchestrator", "decentralised" }

\* C22: a run of an orchestrator or decentralised graph executes at most
\* MAX_ITERATIONS = 5 nodes, even if the model never emits a terminating
\* decision.
C22_IterationCap == RoutedRun => Len(executed) <= MAX_ITERATIONS

\* A status event that names an agent.
NamesAgent(e) == e.type = "status" /\ e.agent # NoneVal

\* C23: the step of a node emits a status event naming the node's agent
\* exactly when the agent differs from the agent of the previous step (the
\* first step always differs): then the event is the first one the step
\* emits and the only status event; a step of the same agent as the previous
\* step emits no status event, and nothing but a node's step emits one.
C23_StatusOnAgentChange ==
    [][ LET added == SubSeq(events', Len(events) + 1, Len(events'))
            named == SelectSeq(added, NamesAgent)
            changed == executed = << >> \/ LastExecuted # cur
        IN  IF executed' # executed /\ changed
            THEN /\ named = << Event("status", "Agent '" \o cur \o "' processing...",
                                     cur) >>
                 /\ added[1] = named[1]
            ELSE named = << >> ]_vars

\* C23 witness: an agent ran twice in a row and then another agent ran; the
\* stream names the first agent once and then the second.
C23_Witness ==
    /\ pc # "idle" /\ Len(executed) = 3
    /\ executed[1] = executed[2] /\ executed[2] # executed[3]
    /\ SelectSeq(events, NamesAgent) =
          << Event("status", "Agent '" \o executed[1] \o "' processing...",
                   executed[1]),
             Event("status", "Agent '" \o executed[3] \o "' processing...",
                   executed[3]) >>

\* The text parses as a JSON object with an "agent" or a "delegate" key.
RoutingPayload(text) ==
    LET data == JsonLoads(Strip(text))
    IN  data.kind = "object" /\ ( data.agent # Absent \/ data.delegate # Absent )

\* The text is a payload {"agent": "__done__", "response": R} with R not
\* empty.
DonePayload(text) ==
    LET data == JsonLoads(Strip(text))
    IN  /\ data.kind = "object" /\ data.agent = "__done__"
        /\ data.response # Absent /\ data.response # ""

\* C24: no token event's content is a routing payload; and a node output
\* that is a JSON object with an "agent" or "delegate" key leaves the
\* captured answer as it was, except that the output {"agent": "__done__",
\* "response": R} with R not empty makes R the captured answer.
C24_RoutingPayloadSuppressed ==
    /\ [] ( \A i \in 1..Len(events) :
              events[i].type = "token" => ~RoutingPayload(events[i].content) )
    /\ [][ ( executed' # executed /\ RoutingPayload(LastText') )
           => IF DonePayload(LastText')
              THEN final_content' = JsonLoads(Strip(LastText')).response
              ELSE final_content' = final_content ]_vars

\* C24 witness: the orchestrator routed to a specialist, the specialist
\* answered with prose, the orchestrator then named an unknown agent in a
\* payload and the run ended: the token holds the specialist's prose.
C24_Witness ==
    /\ JustRouted("orchestrator", "decision") /\ pc = "done"
    /\ Len(executed) = 3
    /\ LastText = UnknownAgentJson
    /\ Len(events) >= 2
    /\ events[Len(events) - 1] = Event("token", "not json", "coder_0")

\* The current step is the return of the node being executed.
NodeReturns == pc = "running" /\ executed' # executed

\* C25: retry_count is 0 when a run starts and never decreases; a step
\* changes it only if it is the return of a validating node that reports a
\* rejection, which adds 1; the return of a plain or delegating node leaves
\* it as it was.
C25_RetryCountMonotone ==
    /\ [][ pc = "idle" /\ pc' = "running" => state'.retry_count = 0 ]_vars
    /\ [][ pc # "idle" => state'.retry_count >= state.retry_count ]_vars
    /\ [][ ( pc # "idle" /\ state'.retry_count # state.retry_count )
           => /\ NodeReturns
              /\ NodeOf(graph.g, cur).kind = "validator"
              /\ state'.validation_result = "rejected"
              /\ state'.retry_count = state.retry_count + 1 ]_vars
    /\ [][ ( NodeReturns
             /\ NodeOf(graph.g, cur).kind \in { "agent", "decentralised" } )
           => state'.retry_count = state.retry_count ]_vars

\* C25 witness: after a rejection through reject_output the first agent ran
\* again and left retry_count at 1.
C25_Witness ==
    /\ pc = "running" /\ system.topology = "sequential"
    /\ executed = << "writer_0", "validator_1", "writer_0" >>
    /\ state.retry_count = 1 /\ state.validation_result = "rejected"
    /\ state.messages[3].content = StrBody("draft")
    /\ state.current_agent = "writer_0"

\* Sequence p is a prefix of sequence q.
IsPrefix(p, q) == Len(p) <= Len(q) /\ SubSeq(q, 1, Len(p)) = p

\* C26: the message history of a run is append-only: after every step of
\* the run the history before the step is a prefix of the history after it;
\* a node's return appends the node's one message, and the steps inside a
\* node's loop leave the history as it was.
C26_HistoryAppendOnly ==
    [][ pc = "running"
        => /\ IsPrefix(state.messages, state'.messages)
           /\ Len(state'.messages) =
                 Len(state.messages) + (IF executed' # executed THEN 1 ELSE 0) ]_vars

\* C26 witness: the validator requested reject_output and returned; the
\* history holds the prompt, the agent's answer and the validator's answer,
\* and the pipeline is being retried.
C26_Witness ==
    /\ pc = "running" /\ system.topology = "sequential"
    /\ executed = << "writer_0", "validator_1" >> /\ cur = "writer_0"
    /\ Len(state.messages) = 3
    /\ state.messages[1] = HumanMessage("hi")
    /\ state.messages[3].content = StrBody("draft")
    /\ state.retry_count = 1

\* Whether a tool result holds one of the two markers.
HoldsMarker(tr) ==
    Contains(tr.content.text, ACCEPTED) \/ Contains(tr.content.text, REJECTED)

\* The first of the tool results that holds a marker.
FirstMarked(trs) ==
    trs[CHOOSE i \in 1..Len(trs) :
            /\ HoldsMarker(trs[i])
            /\ \A j \in 1..(i - 1) : ~HoldsMarker(trs[j])]

\* C27: when the validating node's loop ends without a failure and one of
\* the tool results of this execution holds a marker, validation_result is
\* the one the first such result names, whatever the later results of this
\* execution hold and whatever earlier executions of the validator
\* produced: the history holds no tool result, and the node's list starts
\* empty.
C27_FirstSentinelWins ==
    /\ [][ ( ValidatorReturns /\ ~ModelFails
             /\ \E i \in 1..Len(tool_results) : HoldsMarker(tool_results[i]) )
           => LET first == FirstMarked(tool_results).content.text
              IN  /\ ( Contains(first, ACCEPTED) /\ ~Contains(first, REJECTED) )
                       => state'.validation_result = "accepted"
                  /\ ( Contains(first, REJECTED) /\ ~Contains(first, ACCEPTED) )
                       => state'.validation_result = "rejected" ]_vars
    /\ [] ( \A i \in 1..Len(state.messages) : state.messages[i].type # "tool" )
    /\ [] ( ( pc = "running" /\ npc = "invoke" /\ rounds = 0 )
            => tool_results = << >> )

\* C27 witness: in its second execution, after a rejection, the validator
\* requested accept_output and then reject_output; the run ended accepted.
C27_Witness ==
    /\ pc = "done" /\ result = "__accepted__" /\ state.retry_count = 1
    /\ Len(tool_results) = 2
    /\ tool_results[1].content.text = ACCEPTED
    /\ Contains(tool_results[2].content.text, REJECTED)

\* C28: when the validating node's model requests no tool during the loop
\* and the node returns, validation_result is accepted, retry_count is what
\* it was, the route is the accepting one and the run ends successfully.
C28_ImplicitAccept ==
    [][ ( ValidatorReturns /\ ~ModelFails /\ rounds = 0 )
        => /\ state'.validation_result = "accepted"
           /\ state'.retry_count = state.retry_count
           /\ lastRoute' = "__accepted__"
           /\ pc' = "done" /\ result' = "__accepted__" ]_vars

\* The name of the i-th node of the run's graph.
NodeName(i) == graph.g.nodes[i].name

\* C29: in a sequential run of n >= 2 agents, after a rejection that leaves
\* retry_count below 3 the first agent is the next node to execute; and the
\* nodes execute in rounds of all n agents in declared order, each round
\* ending with the validating node, so that the validator never runs twice
\* without the n - 1 agents before it in between.
C29_RetryRestartsPipeline ==
    /\ [][ ( /\ SequentialRun /\ ValidatorReturns
             /\ state'.validation_result = "rejected"
             /\ state'.retry_count < MAX_RETRIES )
           => pc' = "running" /\ cur' = graph.g.entry /\ npc' = "invoke" ]_vars
    /\ [] ( SequentialRun
            => LET n == Len(system.agents)
               IN  /\ graph.g.entry = NodeName(1)
                   /\ NodeOf(graph.g, NodeName(n)).kind = "validator"
                   /\ \A i \in 1..Len(executed) :
                         executed[i] = NodeName(((i - 1) % n) + 1) )

\* The run is one of an orchestrator graph.
OrchestratorRun == pc # "idle" /\ system.topology = "orchestrator"

\* C30: in an orchestrator run the first agent executes first, the step
\* after a specialist's step is a step of the first agent, the first agent
\* is never followed by itself, and the run ends only directly after a step
\* of the first agent.
C30_OrchestratorLoop ==
    OrchestratorRun
    => LET first == NodeName(1)
       IN  /\ graph.g.entry = first
           /\ executed # << >> => executed[1] = first
           /\ \A i \in 1..(Len(executed) - 1) :
                 IF executed[i] = first THEN executed[i + 1] # first
                 ELSE executed[i + 1] = first
           /\ ( executed # << >> /\ LastExecuted # first )
                => pc = "running" /\ cur = first
           /\ ( executed # << >> /\ LastExecuted = first /\ pc = "running" )
                => cur # first
           /\ pc = "done" => LastExecuted = first

\* The tool messages of a list of requests, in request order.
ResultsOf(tool_calls) ==
    [ i \in 1..Len(tool_calls) |->
        ToolMessage(ToolResult(tool_calls[i].name, tool_calls[i].arg),
                    tool_calls[i].id) ]

\* C31: in a node's loop a response without tool requests ends the loop; a
\* response with k >= 1 requests is appended to the working message list,
\* and when the k requested tools are bound to the node their k results are
\* appended in request order and the model of the same node is invoked
\* again.
C31_ToolLoop ==
    [][ /\ ( pc = "running" /\ npc = "invoke" /\ npc' = "tools" )
           => /\ response'.tool_calls # << >>
              /\ wmsgs' = Append(wmsgs, response')
              /\ cur' = cur /\ executed' = executed
        /\ ( pc = "running" /\ npc = "invoke" /\ npc' # "tools" )
           => executed' # executed \/ npc' = "guard"
        /\ ( /\ pc = "running" /\ npc = "tools"
             /\ AllBound(response.tool_calls, NodeOf(graph.g, cur).tools) )
           => /\ wmsgs' = wmsgs \o ResultsOf(response.tool_calls)
              /\ npc' = "invoke" /\ cur' = cur /\ executed' = executed ]_vars

\* C32: when the loop ends with a response, the additional invocation
\* without tools follows if and only if the node has a tool and the
\* response's text is empty; otherwise the node returns that response.  The
\* additional invocation is made once: whatever it returns, an empty text
\* included, is the node's output, and the node returns.
C32_PostLoopGuard ==
    [][ /\ ( pc = "running" /\ npc = "invoke" /\ npc' # "tools" /\ ~ModelFails )
           => LET has_tools == NodeOf(graph.g, cur).tools # << >>
              IN  IF npc' = "guard"
                  THEN /\ has_tools /\ _extract_content(response'.content) = ""
                       /\ executed' = executed /\ state' = state
                       /\ wmsgs' = wmsgs
                  ELSE /\ executed' = Append(executed, cur)
                       /\ ~( has_tools /\ LastText' = "" )
                       /\ state'.final_response = LastText'
        /\ ( pc = "running" /\ npc = "guard" )
           => /\ npc' # "guard"
              /\ executed' = Append(executed, cur)
              /\ ~GuardFails
                   => /\ state'.messages[Len(state'.messages)].content
                            \in NodeBodies
                      /\ state'.final_response = LastText' ]_vars

\* C32 witness: the agent, which has a tool, ended its loop with an empty
\* text and answered with an empty text again at the additional invocation;
\* the empty text is its output and the validator is running.
C32_Witness ==
    /\ pc = "running" /\ executed = << "writer_0" >> /\ cur = "validator_1"
    /\ Len(state.messages) = 2 /\ LastText = ""
    /\ state.messages[2].type = "ai"
    /\ state.final_response = ""

\* The run is one of a sequential pipeline of exactly one agent whose graph
\* was built.
SoloSequentialRun ==
    /\ pc # "idle" /\ result # "build_error"
    /\ system.topology = "sequential" /\ Len(system.agents) = 1

\* C33: the graph of a sequential pipeline of one agent is the graph of the
\* single strategy for that agent, a plain node with an edge to the end; in
\* its run the agent executes at most once and the run ends with that step,
\* no validation routing is made, no rejection is reported, retry_count
\* stays 0 and validation_result stays null.
C33_OneAgentSequentialIsSingle ==
    SoloSequentialRun
    => /\ graph.g = _build_single(MergeAgents(system)[1])
       /\ graph.g = build_graph([ system EXCEPT !.topology = "single" ],
                                MergeAgents(system))
       /\ Len(graph.g.nodes) = 1
       /\ graph.g.nodes[1].kind = "agent" /\ graph.g.nodes[1].edge = "end"
       /\ Len(executed) <= 1
       /\ executed # << >> <=> pc = "done"
       /\ lastRoute = "" /\ retried = 0
       /\ state.retry_count = 0 /\ state.validation_result = NoneVal
       /\ CountType(events, "validation_rejected") = 0

\* C33 witness: the one agent of a sequential pipeline, of type validator,
\* requested reject_output and answered; the run has ended after that step.
C33_Witness ==
    /\ SoloSequentialRun /\ pc = "done" /\ result = "end"
    /\ executed = << "validator_0" >>
    /\ tool_results # << >>
    /\ Contains(tool_results[1].content.text, REJECTED)
    /\ LastText = "draft"

\* C34: content extraction is idempotent: extracting from the text that was
\* extracted from a content (a string, a list of blocks or another value)
\* returns that text, and extracting from a plain string returns the string.
C34_ExtractIdempotent ==
    /\ \A i \in 1..Len(wmsgs) :
          /\ wmsgs[i].content.kind = "str"
          /\ wmsgs[i].content.text = wmsgs[1].content.text
    /\ ( wmsgs # << >> /\ response.content.kind = "str" )
         => wmsgs[1].content = response.content

\* C34 witness: a list of a text block and a dict without a "text" key was
\* extracted, and the result was extracted again.
C34_Witness ==
    /\ response.content =
          ListBody(<< TextBlock("a"), DictBlock("{'type': 'tool_use'}") >>)
    /\ Len(wmsgs) = 2
    /\ wmsgs[2].content = StrBody(JoinLines(<< "a", "{'type': 'tool_use'}" >>))

\* C35: no event stream holds both a token event and an error event; a
\* stream holds at most one token event, and a token event is followed by
\* done and by nothing else.
C35_TokenExcludesError ==
    /\ ~( CountType(events, "token") > 0 /\ CountType(events, "error") > 0 )
    /\ CountType(events, "token") <= 1
    /\ \A i \in 1..Len(events) :
          events[i].type = "token"
          => i + 1 = Len(events) /\ events[i + 1].type = "done"

\* C35 witness: the first agent's text had been captured as the answer when
\* handling the validator's update raised; the stream ends with an error
\* event and holds no token event.
C35_Witness ==
    /\ pc = "done" /\ result = "exec_error" /\ final_content = "draft"
    /\ CountType(events, "error") = 1 /\ CountType(events, "token") = 0

\* C36: the stream of a run whose graph was built holds no error event,
\* whatever texts the nodes return: prose, a JSON object, or a JSON value
\* that is not an object.
C36_NoErrorAfterBuild ==
    ( pc # "idle" /\ result # "build_error" ) => CountType(events, "error") = 0

\* The hash of the configuration a compiled graph was built from, with its
\* merged agents.
HashOfSource(g) == _hash_system(g.src, MergeAgents(g.src))

\* C37: after any sequence of get_or_build and invalidate calls, the cache
\* holds one entry per pipeline identifier it holds at all, each for the
\* pipeline of that identifier; the hash stored with a graph is the hash of
\* the configuration and agents the graph was built from; and the graph
\* get_or_build returned was built from inputs whose hash is the hash of the
\* call's configuration and agents.
C37_CacheConsistent ==
    /\ \A k \in DOMAIN cache :
          /\ cache[k].graph.src.id = k
          /\ cache[k].hash = HashOfSource(cache[k].graph)
          /\ cache[k].graph.g =
                build_graph(cache[k].graph.src, MergeAgents(cache[k].graph.src))
    /\ \A k1, k2 \in DOMAIN cache :
          cache[k1].graph.gid = cache[k2].graph.gid => k1 = k2
    /\ lastCall.op = "get_or_build"
         => /\ HashOfSource(lastCall.graph) =
                  _hash_system(lastCall.system, MergeAgents(lastCall.system))
            /\ cache[lastCall.id].graph = lastCall.graph

\* C37 witness: after a rebuild for a changed prompt and an invalidation, a
\* call was served from the cache while another pipeline was cached.
C37_Witness ==
    /\ lastCall.op = "get_or_build" /\ ~lastCall.built
    /\ builds = MaxBuilds
    /\ Cardinality(DOMAIN cache) = 2
    /\ lastCall.graph.gid = 2

\* C38: when the validating node's loop produced one or more tool results,
\* none of which holds the accepted or the rejected marker, and the node
\* returns its response, validation_result is accepted and retry_count is
\* what it was, as when no tool was requested; the run ends accepted.
C38_UnmarkedResultsAccept ==
    [][ ( /\ ValidatorReturns /\ npc = "invoke" /\ ~ModelFails
          /\ tool_results # << >>
          /\ \A i \in 1..Len(tool_results) : ~HoldsMarker(tool_results[i]) )
        => /\ state'.validation_result = "accepted"
           /\ state'.retry_count = state.retry_count
           /\ state'.validation_result = validator_result(<< >>)
           /\ lastRoute' = "__accepted__" /\ pc' = "done" ]_vars

\* C38 witness: the last agent of the pipeline, a coder, ran calculate and
\* parse_document in two rounds and answered; the run has ended accepted.
C38_Witness ==
    /\ pc = "done" /\ result = "__accepted__"
    /\ executed = << "writer_0", "coder_1" >>
    /\ Len(tool_results) = 2
    /\ tool_results[1].content.text = "result of calculate"
    /\ tool_results[2].content.text = "result of parse_document"
    /\ state.retry_count = 0

\* C39: when the first tool result of the validator's loop that holds a
\* marker is a result of reject_output, the node reports rejected and adds 1
\* to retry_count, whatever the reason, a reason that holds the accepted
\* marker included.
C39_RejectReasonIgnored ==
    [][ ( /\ ValidatorReturns /\ npc = "invoke" /\ ~ModelFails
          /\ \E i \in 1..Len(tool_results) : HoldsMarker(tool_results[i])
          /\ FirstMarked(tool_results).content.text
                \in { ToolResult("reject_output", reason) :
                        reason \in ReasonTexts } )
        => /\ state'.validation_result = "rejected"
           /\ state'.retry_count = state.retry_count + 1 ]_vars

\* The run is one of a sequential pipeline whose graph was built.
AnySequentialRun ==
    pc # "idle" /\ result # "build_error" /\ system.topology = "sequential"

\* C40: in every state of a sequential run retry_count is at most 3, and the
\* validating node and the first agent have each executed at most 3 times,
\* whatever mix of rejections through reject_output and failures of the
\* validator occurred.
C40_RetriesBounded ==
    AnySequentialRun
    => /\ 0 <= state.retry_count /\ state.retry_count <= MAX_RETRIES
       /\ CountOf(executed, graph.g.entry) <= MAX_RETRIES
       /\ CountOf(executed, graph.g.nodes[Len(graph.g.nodes)].name) <= MAX_RETRIES

\* C40 witness: a run has ended on the error route after a failure of the
\* validator and rejections through reject_output; each of the three agents
\* has executed three times.
C40_Witness ==
    /\ pc = "done" /\ SequentialRun /\ result = "__error__"
    /\ Len(system.agents) = 3 /\ Len(executed) = 9
    /\ state.retry_count = 3
    /\ state.final_response = "draft"
    /\ \E i \in 1..Len(state.messages) :
          state.messages[i].content =
             StrBody("Error in validator 'validator_2': model unavailable")

====
